---- MODULE Spec2Model ----
(***************************************************************************)
(* A model of keepa.py: the request loop of KeepaAPI (transient retries    *)
(* nested in rate-limit retries) and the series functions formatted,       *)
(* gmdate and interpolate.                                                 *)
(***************************************************************************)
EXTENDS Integers, Sequences, FiniteSets, TLC

VARIABLES
    \* ---- KeepaAPI.request ----
    inst,       \* thread -> the KeepaAPI instance its calls are made on
    response,   \* instance -> self.response (the last response assigned)
    pc,         \* thread -> position in request
    url,        \* thread -> the local url of the running call
    counter,    \* thread -> the local counter
    data,       \* thread -> the local data (the decoded body)
    hist,       \* thread -> what the running call did: attempts and sleeps
    outcome,    \* thread -> how the last call ended (return / raise)
    net,        \* number of network attempts made so far (over all calls)
    \* ---- interpolate ----
    csv_data,   \* the raw series (flat: timestamp, value, timestamp, ...)
    func,       \* the reducer
    now,        \* the host clock: seconds since the epoch
    utcoffset,  \* the host timezone's offset from UTC, in seconds
    ipc,        \* position in interpolate
    cursor,     \* how many items the iterator data has yielded
    date1, value1, date2, value2, today, values, results,
    \* ---- the call builders (products, categories) ----
    call,       \* thread -> the builder call it is in, with its arguments
    budget,     \* the network attempts this run of the model may make
    \* ---- formatted ----
    fmintime,   \* the mintime argument
    fpc,        \* position of the call of formatted
    fout        \* what formatted returned

reqvars == <<inst, response, pc, url, counter, data, hist, outcome, net, call,
             budget>>
fmtvars == <<fmintime, fpc, fout>>
intvars == <<csv_data, func, now, utcoffset, ipc, cursor, date1, value1,
             date2, value2, today, values, results>>
vars == <<reqvars, intvars, fmtvars>>

----------------------------------------------------------------------------
(* Bounds *)

\* network attempts made over one run of the request model
MaxAttempts == 6

\* network attempts made over one run of the model of the call builders
MaxBuilderAttempts == 2

\* category ids passed in one call of categories
MaxIds == 11

\* network attempts made over one run of the model of two concurrent callers
MaxSharedAttempts == 2

\* network attempts made over one run of the request model under fairness
MaxFairAttempts == 5

----------------------------------------------------------------------------
(* Constants of the program *)

STATUS_CODES ==
    [s \in {400, 402, 405, 429, 500} |->
        CASE s = 400 -> "Bad Request the request was malformed or could not successfully execute."
          [] s = 402 -> "The used API key does not grant access."
          [] s = 405 -> "A request parameter is out of allowed range."
          [] s = 429 -> "You are out of tokens."
          [] s = 500 -> "An unexpected error occurred when executing this request."]

\* counter = 3
Attempts == 3

\* time.sleep(30)
RetrySleep == 30

----------------------------------------------------------------------------
(* The server and the network, as request sees them *)

\* the paths the callers of request pass
Paths == {"/product", "/token"}

\* the statuses a response may carry: 200, the five of STATUS_CODES and one
\* that is not in the table
Statuses == {200, 400, 402, 405, 429, 500, 503}

\* the refillIn values (milliseconds) a body may carry
RefillIns == {0, 1500, 2000}

\* A decoded body: a JSON object with its keys; id tells the bodies apart.
NoBody == [id |-> 0, keys |-> {}, refillIn |-> 0]

Bodies(n, s) ==
    IF s = 429
    THEN {[id |-> n, keys |-> {"refillIn", "tokensLeft"}, refillIn |-> r] : r \in RefillIns}
         \cup {[id |-> n, keys |-> {"refillIn"}, refillIn |-> 1500],
               [id |-> n, keys |-> {"tokensLeft"}, refillIn |-> 0]}
    ELSE {[id |-> n, keys |-> {"refillIn", "tokensLeft"}, refillIn |-> 0]}

\* self.response = None
None == [id |-> 0, status_code |-> 0, parsable |-> FALSE, body |-> NoBody]

\* The responses requests.get may deliver as the n-th network attempt: any
\* status, with a text that json.loads decodes (to body) or rejects.
Responses(n) ==
    UNION {{[id |-> n, status_code |-> s, parsable |-> TRUE, body |-> b] :
                b \in Bodies(n, s)} : s \in Statuses}
    \cup {[id |-> n, status_code |-> s, parsable |-> FALSE, body |-> NoBody] :
        s \in Statuses}

\* What a call did, in order: its network attempts and its sleeps. An attempt
\* is "conn" (requests.get raised ConnectionError), "json" (the text of the
\* response is no JSON) or "ok" (a response with a JSON text, of that status).
Attempt(ev, r, u) ==
    [ev |-> ev, status |-> IF ev = "ok" THEN r.status_code ELSE 0,
     id |-> r.id, url |-> u, secs |-> 0]
Sleep(n) == [ev |-> "sleep", status |-> 0, id |-> 0, url |-> "", secs |-> n]

\* How a call ended: its return value, or the exception it raised.
NoOutcome == [kind |-> "none", exc |-> "", msg |-> "", code |-> 0, value |-> NoBody]
Return(b) == [kind |-> "return", exc |-> "", msg |-> "", code |-> 0, value |-> b]
Raise(e, m, c) == [kind |-> "raise", exc |-> e, msg |-> m, code |-> c, value |-> NoBody]

\* the milliseconds rounded down instead of up
FloorSeconds(ms) == ms \div 1000

\* math.ceil(data['refillIn']/1000)
CeilSeconds(ms) == IF ms % 1000 = 0 THEN ms \div 1000 ELSE (ms \div 1000) + 1

Threads == DOMAIN pc

\* no category argument
NoCategory == [type |-> "", ints |-> <<>>, text |-> <<>>]

\* no builder call: request was called directly
NoArgs == [method |-> "request", asins_is_list |-> TRUE, offers_given |-> FALSE,
           offers |-> 0, category |-> NoCategory, cat_ids |-> <<>>,
           delegated |-> TRUE]

----------------------------------------------------------------------------
(* KeepaAPI.request *)

\* A fresh KeepaAPI instance (self.response = None) and its idle caller.
Init ==
    /\ inst = [t \in {1} |-> 1]
    /\ response = [i \in {1} |-> None]
    /\ pc = [t \in {1} |-> "idle"]
    /\ url = [t \in {1} |-> ""]
    /\ counter = [t \in {1} |-> 0]
    /\ data = [t \in {1} |-> NoBody]
    /\ hist = [t \in {1} |-> <<>>]
    /\ outcome = [t \in {1} |-> NoOutcome]
    /\ net = 0
    /\ call = [t \in {1} |-> NoArgs]
    /\ budget = MaxAttempts
    /\ fmintime = 0 /\ fpc = "off" /\ fout = <<>>
    /\ csv_data = <<>> /\ func = "min" /\ now = 0 /\ utcoffset = 0
    /\ ipc = "off" /\ cursor = 0 /\ date1 = 0 /\ value1 = 0 /\ date2 = 0
    /\ value2 = 0 /\ today = 0 /\ values = <<>> /\ results = <<>>

\* request(path, query): url = urlunparse(...); the call starts
Start(t) ==
    /\ pc[t] \in {"idle", "done"}
    /\ net < budget
    /\ \E p \in Paths : url' = [url EXCEPT ![t] = p]
    /\ pc' = [pc EXCEPT ![t] = "loop"]
    /\ counter' = [counter EXCEPT ![t] = 0]
    /\ data' = [data EXCEPT ![t] = NoBody]
    /\ hist' = [hist EXCEPT ![t] = <<>>]
    /\ outcome' = [outcome EXCEPT ![t] = NoOutcome]
    /\ call' = [call EXCEPT ![t] = NoArgs]
    /\ UNCHANGED <<inst, response, net, intvars, fmtvars, budget>>

\* Loop setting the counter at the start of the call only
LoopNoReset(t) ==
    /\ pc[t] = "loop"
    /\ counter' = [counter EXCEPT ![t] =
                      IF hist[t] = <<>> THEN Attempts ELSE counter[t]]
    /\ pc' = [pc EXCEPT ![t] = "get"]
    /\ UNCHANGED <<inst, response, url, data, hist, outcome, net,
                   intvars, fmtvars, call, budget>>

\* while True: counter = 3
Loop(t) ==
    /\ pc[t] = "loop"
    /\ counter' = [counter EXCEPT ![t] = Attempts]
    /\ pc' = [pc EXCEPT ![t] = "get"]
    /\ UNCHANGED <<inst, response, url, data, hist, outcome, net,
                   intvars, fmtvars, call, budget>>

\* Except without its time.sleep(30)
ExceptNoSleep(t, e, h) ==
    /\ counter' = [counter EXCEPT ![t] = counter[t] - 1]
    /\ hist' = [hist EXCEPT ![t] = h]
    /\ IF counter[t] - 1 = 0
       THEN /\ outcome' = [outcome EXCEPT ![t] = Raise(e, "", 0)]
            /\ pc' = [pc EXCEPT ![t] = "done"]
       ELSE /\ outcome' = outcome
            /\ pc' = [pc EXCEPT ![t] = "get"]

\* Except testing the counter before it is decremented
ExceptLate(t, e, h) ==
    /\ counter' = [counter EXCEPT ![t] = counter[t] - 1]
    /\ IF counter[t] = 0
       THEN /\ outcome' = [outcome EXCEPT ![t] = Raise(e, "", 0)]
            /\ hist' = [hist EXCEPT ![t] = h]
            /\ pc' = [pc EXCEPT ![t] = "done"]
       ELSE /\ outcome' = outcome
            /\ hist' = [hist EXCEPT ![t] = Append(h, Sleep(RetrySleep))]
            /\ pc' = [pc EXCEPT ![t] = "get"]

\* Except without its raise: the call sleeps and tries again, always
ExceptNeverRaises(t, e, h) ==
    /\ counter' = [counter EXCEPT ![t] = counter[t] - 1]
    /\ outcome' = outcome
    /\ hist' = [hist EXCEPT ![t] = Append(h, Sleep(RetrySleep))]
    /\ pc' = [pc EXCEPT ![t] = "get"]

\* except (ConnectionError, JSONDecodeError) as e: counter -= 1;
\* if not counter: raise; time.sleep(30)      (h: the call's history so far)
Except(t, e, h) ==
    /\ counter' = [counter EXCEPT ![t] = counter[t] - 1]
    /\ IF counter[t] - 1 = 0
       THEN /\ outcome' = [outcome EXCEPT ![t] = Raise(e, "", 0)]
            /\ hist' = [hist EXCEPT ![t] = h]
            /\ pc' = [pc EXCEPT ![t] = "done"]
       ELSE /\ outcome' = outcome
            /\ hist' = [hist EXCEPT ![t] = Append(h, Sleep(RetrySleep))]
            /\ pc' = [pc EXCEPT ![t] = "get"]

\* self.response = requests.get(url) raises ConnectionError: self.response
\* is not assigned
GetFails(t) ==
    /\ pc[t] = "get"
    /\ net < budget
    /\ net' = net + 1
    /\ Except(t, "ConnectionError", Append(hist[t], Attempt("conn", None, url[t])))
    /\ UNCHANGED <<inst, response, url, data, intvars, fmtvars, call, budget>>

\* Get assigning a field that all the instances share (a class attribute)
GetSharedField(t) ==
    /\ pc[t] = "get"
    /\ net < budget
    /\ net' = net + 1
    /\ \E r \in Responses(net + 1) :
          /\ response' = [i \in DOMAIN response |-> r]
          /\ hist' = [hist EXCEPT ![t] = Append(hist[t],
                        Attempt(IF r.parsable THEN "ok" ELSE "json", r, url[t]))]
    /\ pc' = [pc EXCEPT ![t] = "parse"]
    /\ UNCHANGED <<inst, url, counter, data, outcome,
                   intvars, fmtvars, call, budget>>

\* self.response = requests.get(url)
Get(t) ==
    /\ pc[t] = "get"
    /\ net < budget
    /\ net' = net + 1
    /\ \E r \in Responses(net + 1) :
          /\ response' = [response EXCEPT ![inst[t]] = r]
          /\ hist' = [hist EXCEPT ![t] = Append(hist[t],
                        Attempt(IF r.parsable THEN "ok" ELSE "json", r, url[t]))]
    /\ pc' = [pc EXCEPT ![t] = "parse"]
    /\ UNCHANGED <<inst, url, counter, data, outcome,
                   intvars, fmtvars, call, budget>>

\* Parse going on to the status checks when the status is not 200, whether
\* or not the text is JSON
ParseStatusFirst(t) ==
    /\ pc[t] = "parse"
    /\ IF response[inst[t]].parsable \/ response[inst[t]].status_code # 200
       THEN /\ data' = [data EXCEPT ![t] = response[inst[t]].body]
            /\ pc' = [pc EXCEPT ![t] = "s264"]
            /\ UNCHANGED <<counter, hist, outcome>>
       ELSE /\ Except(t, "JSONDecodeError", hist[t])
            /\ data' = data
    /\ UNCHANGED <<inst, response, url, net, intvars, fmtvars, call, budget>>

\* data = json.loads(self.response.text); break
Parse(t) ==
    /\ pc[t] = "parse"
    /\ IF response[inst[t]].parsable
       THEN /\ data' = [data EXCEPT ![t] = response[inst[t]].body]
            /\ pc' = [pc EXCEPT ![t] = "s264"]
            /\ UNCHANGED <<counter, hist, outcome>>
       ELSE /\ Except(t, "JSONDecodeError", hist[t])
            /\ data' = data
    /\ UNCHANGED <<inst, response, url, net, intvars, fmtvars, call, budget>>

\* Check200 leaving the loop on every status but 429
Check200Not429(t) ==
    /\ pc[t] = "s264"
    /\ IF response[inst[t]].status_code # 429
       THEN /\ outcome' = [outcome EXCEPT ![t] = Return(data[t])]
            /\ pc' = [pc EXCEPT ![t] = "done"]
       ELSE /\ outcome' = outcome
            /\ pc' = [pc EXCEPT ![t] = "s266"]
    /\ UNCHANGED <<inst, response, url, counter, data, hist, net,
                   intvars, fmtvars, call, budget>>

\* if self.response.status_code == 200: break ... return data
Check200(t) ==
    /\ pc[t] = "s264"
    /\ IF response[inst[t]].status_code = 200
       THEN /\ outcome' = [outcome EXCEPT ![t] = Return(data[t])]
            /\ pc' = [pc EXCEPT ![t] = "done"]
       ELSE /\ outcome' = outcome
            /\ pc' = [pc EXCEPT ![t] = "s266"]
    /\ UNCHANGED <<inst, response, url, counter, data, hist, net,
                   intvars, fmtvars, call, budget>>

\* elif self.response.status_code in STATUS_CODES: ... else: (line 276)
CheckKnown(t) ==
    /\ pc[t] = "s266"
    /\ pc' = [pc EXCEPT ![t] =
                IF response[inst[t]].status_code \in DOMAIN STATUS_CODES
                THEN "s267" ELSE "s276"]
    /\ UNCHANGED <<inst, response, url, counter, data, hist, outcome, net,
                   intvars, fmtvars, call, budget>>

\* Check429 waiting and retrying on a 500 too
Check429Or500(t) ==
    /\ pc[t] = "s267"
    /\ pc' = [pc EXCEPT ![t] =
                IF response[inst[t]].status_code \in {429, 500}
                THEN "s268" ELSE "s272"]
    /\ UNCHANGED <<inst, response, url, counter, data, hist, outcome, net,
                   intvars, fmtvars, call, budget>>

\* if self.response.status_code == 429: ... else: (line 272)
Check429(t) ==
    /\ pc[t] = "s267"
    /\ pc' = [pc EXCEPT ![t] =
                IF response[inst[t]].status_code = 429 THEN "s268" ELSE "s272"]
    /\ UNCHANGED <<inst, response, url, counter, data, hist, outcome, net,
                   intvars, fmtvars, call, budget>>

\* RateLimit giving up at the third 429 of a call
RateLimitCapped(t) ==
    /\ pc[t] = "s268"
    /\ IF /\ {"refillIn", "tokensLeft"} \subseteq data[t].keys
          /\ Len(SelectSeq(hist[t], LAMBDA e : e.ev = "ok" /\ e.status = 429)) < 3
       THEN /\ hist' = [hist EXCEPT ![t] =
                          Append(hist[t], Sleep(CeilSeconds(data[t].refillIn)))]
            /\ pc' = [pc EXCEPT ![t] = "loop"]
            /\ outcome' = outcome
       ELSE /\ outcome' = [outcome EXCEPT ![t] = Raise("KeyError", "", 0)]
            /\ pc' = [pc EXCEPT ![t] = "done"]
            /\ hist' = hist
    /\ UNCHANGED <<inst, response, url, counter, data, net,
                   intvars, fmtvars, call, budget>>

\* delay = math.ceil(data['refillIn']/1000); logger.info(... data['tokensLeft']
\* ...); time.sleep(delay); then the outer loop again. A key the body lacks
\* raises KeyError.
RateLimit(t) ==
    /\ pc[t] = "s268"
    /\ IF {"refillIn", "tokensLeft"} \subseteq data[t].keys
       THEN /\ hist' = [hist EXCEPT ![t] =
                          Append(hist[t], Sleep(CeilSeconds(data[t].refillIn)))]
            /\ pc' = [pc EXCEPT ![t] = "loop"]
            /\ outcome' = outcome
       ELSE /\ outcome' = [outcome EXCEPT ![t] = Raise("KeyError", "", 0)]
            /\ pc' = [pc EXCEPT ![t] = "done"]
            /\ hist' = hist
    /\ UNCHANGED <<inst, response, url, counter, data, net,
                   intvars, fmtvars, call, budget>>

\* error = STATUS_CODES[self.response.status_code]; raise KeepaException(error)
RaiseStatus(t) ==
    /\ pc[t] = "s272"
    /\ outcome' = [outcome EXCEPT ![t] =
            IF response[inst[t]].status_code \in DOMAIN STATUS_CODES
            THEN Raise("KeepaException",
                       STATUS_CODES[response[inst[t]].status_code], 0)
            ELSE Raise("KeyError", "", 0)]
    /\ pc' = [pc EXCEPT ![t] = "done"]
    /\ UNCHANGED <<inst, response, url, counter, data, hist, net,
                   intvars, fmtvars, call, budget>>

\* raise KeepaException('Unknown status code "{}"'.format(status_code))
RaiseUnknown(t) ==
    /\ pc[t] = "s276"
    /\ outcome' = [outcome EXCEPT ![t] =
            Raise("KeepaException", "Unknown status code",
                  response[inst[t]].status_code)]
    /\ pc' = [pc EXCEPT ![t] = "done"]
    /\ UNCHANGED <<inst, response, url, counter, data, hist, net,
                   intvars, fmtvars, call, budget>>

request(t) ==
    \/ Start(t) \/ Loop(t) \/ GetFails(t) \/ Get(t) \/ Parse(t)
    \/ Check200(t) \/ CheckKnown(t) \/ Check429(t) \/ RateLimit(t)
    \/ RaiseStatus(t) \/ RaiseUnknown(t)

Next == \E t \in Threads : request(t)

Spec == Init /\ [][Next]_vars

\* a fresh instance and its idle caller, as Init
InitFair ==
    /\ inst = [t \in {1} |-> 1]
    /\ response = [i \in {1} |-> None]
    /\ pc = [t \in {1} |-> "idle"]
    /\ url = [t \in {1} |-> ""]
    /\ counter = [t \in {1} |-> 0]
    /\ data = [t \in {1} |-> NoBody]
    /\ hist = [t \in {1} |-> <<>>]
    /\ outcome = [t \in {1} |-> NoOutcome]
    /\ net = 0
    /\ call = [t \in {1} |-> NoArgs]
    /\ budget = MaxFairAttempts
    /\ fmintime = 0 /\ fpc = "off" /\ fout = <<>>
    /\ csv_data = <<>> /\ func = "min" /\ now = 0 /\ utcoffset = 0
    /\ ipc = "off" /\ cursor = 0 /\ date1 = 0 /\ value1 = 0 /\ date2 = 0
    /\ value2 = 0 /\ today = 0 /\ values = <<>> /\ results = <<>>

\* a call that has started goes on: requests.get, json.loads and time.sleep
\* all come back
Running(t) == pc[t] \notin {"idle", "done"} /\ request(t)

SpecFair == InitFair /\ [][Next]_vars /\ WF_vars(Running(1))

----------------------------------------------------------------------------
(* Two threads calling request, on one KeepaAPI instance or on two *)

InitShared ==
    /\ inst \in {[t \in {1, 2} |-> 1], [t \in {1, 2} |-> t]}
    /\ response = [i \in {1, 2} |-> None]
    /\ pc = [t \in {1, 2} |-> "idle"]
    /\ url = [t \in {1, 2} |-> ""]
    /\ counter = [t \in {1, 2} |-> 0]
    /\ data = [t \in {1, 2} |-> NoBody]
    /\ hist = [t \in {1, 2} |-> <<>>]
    /\ outcome = [t \in {1, 2} |-> NoOutcome]
    /\ net = 0
    /\ call = [t \in {1, 2} |-> NoArgs]
    /\ budget = MaxSharedAttempts
    /\ fmintime = 0 /\ fpc = "off" /\ fout = <<>>
    /\ csv_data = <<>> /\ func = "min" /\ now = 0 /\ utcoffset = 0
    /\ ipc = "off" /\ cursor = 0 /\ date1 = 0 /\ value1 = 0 /\ date2 = 0
    /\ value2 = 0 /\ today = 0 /\ values = <<>> /\ results = <<>>

SpecShared == InitShared /\ [][Next]_vars

----------------------------------------------------------------------------
(* formatted, gmdate *)

\* (t + 21564000)*60: KeepaTime minutes to seconds since the Unix epoch
KeepaOffset == 21564000

\* the KeepaTime shifted to the epoch and left in minutes
DecodeMinutes(t) == t + KeepaOffset

Decode(t) == (t + KeepaOffset) * 60

Min2(a, b) == IF a < b THEN a ELSE b

\* timestamps = [(t + 21564000)*60 for t in csv_data[0::2]]
Timestamps(csv) == [j \in 1..((Len(csv) + 1) \div 2) |-> Decode(csv[2 * j - 1])]

\* values = csv_data[1::2]
ValuesOf(csv) == [j \in 1..(Len(csv) \div 2) |-> csv[2 * j]]

\* for i, timestamp in enumerate(timestamps): if timestamp > mintime: break
\* the value of i when the loop ends (by break, or with the last index)
RECURSIVE Scan(_, _, _)
Scan(ts, mintime, i) ==
    IF ts[i + 1] > mintime \/ i + 1 = Len(ts) THEN i ELSE Scan(ts, mintime, i + 1)

\* CutIndex without its step back: the cut is where the loop ended
CutIndexNoBackup(ts, mintime) ==
    IF mintime # 0 THEN Scan(ts, mintime, 0) ELSE 0

\* i = 0; if mintime: <the loop>; i = (i - 1) if i else 0
CutIndex(ts, mintime) ==
    IF mintime # 0
    THEN LET i == Scan(ts, mintime, 0) IN IF i # 0 THEN i - 1 ELSE 0
    ELSE 0

\* list(zip(a[i:], b[i:]))
ZipFrom(a, b, i) == [j \in 1..(Min2(Len(a), Len(b)) - i) |-> <<a[i + j], b[i + j]>>]

formatted(csv, mintime) ==
    IF csv = <<>> THEN <<>>
    ELSE ZipFrom(Timestamps(csv), ValuesOf(csv), CutIndex(Timestamps(csv), mintime))

\* The civil calendar. A datetime.date is held as its day number, counted
\* from 1970-01-01 (date.toordinal() up to a constant), so that date1 + day
\* is + 1 and dates compare as numbers.
\* datetime.date(y, m, d)
Date(y, m, d) ==
    LET yy == IF m <= 2 THEN y - 1 ELSE y
        era == yy \div 400
        yoe == yy - era * 400
        mp == IF m > 2 THEN m - 3 ELSE m + 9
        doy == ((153 * mp + 2) \div 5) + d - 1
        doe == yoe * 365 + (yoe \div 4) - (yoe \div 100) + doy
    IN  era * 146097 + doe - 719468

\* the year, month and day of time.gmtime(timestamp)
Gmtime(timestamp) ==
    LET z == (timestamp \div 86400) + 719468
        era == z \div 146097
        doe == z - era * 146097
        yoe == (doe - (doe \div 1460) + (doe \div 36524) - (doe \div 146096)) \div 365
        doy == doe - (365 * yoe + (yoe \div 4) - (yoe \div 100))
        mp == (5 * doy + 2) \div 153
        d == doy - ((153 * mp + 2) \div 5) + 1
        m == IF mp < 10 THEN mp + 3 ELSE mp - 9
    IN  <<IF m <= 2 THEN yoe + era * 400 + 1 ELSE yoe + era * 400, m, d>>

DigitChar == <<"0", "1", "2", "3", "4", "5", "6", "7", "8", "9">>

RECURSIVE Decimal(_)
Decimal(n) ==
    IF n < 10 THEN <<DigitChar[n + 1]>>
    ELSE Decimal(n \div 10) \o <<DigitChar[(n % 10) + 1]>>

RECURSIVE ZeroPad(_, _)
ZeroPad(str, width) == IF Len(str) < width THEN ZeroPad(<<"0">> \o str, width) ELSE str

\* time.strftime('%Y.%m.%d', ...): the string, as its characters
Strftime(ymd) ==
    ZeroPad(Decimal(ymd[1]), 4) \o <<".">> \o ZeroPad(Decimal(ymd[2]), 2)
        \o <<".">> \o ZeroPad(Decimal(ymd[3]), 2)

\* str.split('.')
RECURSIVE SplitDots(_, _, _)
SplitDots(str, i, part) ==
    IF i > Len(str) THEN <<part>>
    ELSE IF str[i] = "." THEN <<part>> \o SplitDots(str, i + 1, <<>>)
    ELSE SplitDots(str, i + 1, Append(part, str[i]))

\* int(v)
RECURSIVE Int10(_, _, _)
Int10(str, i, acc) ==
    IF i > Len(str) THEN acc
    ELSE Int10(str, i + 1,
               10 * acc + (CHOOSE k \in 0..9 : DigitChar[k + 1] = str[i]))

\* date = strftime('%Y.%m.%d', gmtime(timestamp));
\* args = [int(v) for v in date.split('.')]; return datetime.date(*args)
gmdate(timestamp) ==
    LET parts == SplitDots(Strftime(Gmtime(timestamp)), 1, <<>>)
        args == [k \in 1..Len(parts) |-> Int10(parts[k], 1, 0)]
    IN  Date(args[1], args[2], args[3])

\* datetime.date.today(): the date of the host's local time
DateToday(clock, offset) ==
    LET ymd == Gmtime(clock + offset) IN Date(ymd[1], ymd[2], ymd[3])

----------------------------------------------------------------------------
(* interpolate *)

\* series of at most MaxSamples samples
MaxSamples == 3

\* KeepaTime minutes: 23:59 of day 0, 00:00 of day 1, 00:00 of day 3
RawTimes == {1439, 1440, 4320}
Values == {3, 7, 10}

\* the host clock when interpolate runs (00:30 of day 0, 23:30 of day 2,
\* 12:00 of day 4), and the host timezone's offset from UTC
Clocks == {Decode(0) + 1800, Decode(2880) + 84600, Decode(5760) + 43200}
UtcOffsets == {-3600, 0, 3600}

\* the func argument: min (the default), max, or the day's last value
Reducers == {"min", "max", "last"}

\* csv_data of the samples ps: t1, v1, t2, v2, ...
Flat(ps) == [i \in 1..(2 * Len(ps)) |->
                IF i % 2 = 1 THEN ps[(i + 1) \div 2][1] ELSE ps[i \div 2][2]]

RawSeries == {Flat(ps) : ps \in UNION {[1..n -> RawTimes \X Values] : n \in 0..MaxSamples}}

\* func(values)
Reduce(f, vals) ==
    CASE f = "min" -> CHOOSE v \in {vals[i] : i \in 1..Len(vals)} :
                          \A i \in 1..Len(vals) : v <= vals[i]
      [] f = "max" -> CHOOSE v \in {vals[i] : i \in 1..Len(vals)} :
                          \A i \in 1..Len(vals) : v >= vals[i]
      [] f = "last" -> vals[Len(vals)]

\* data = iter(formatted(csv_data)): the items, of which cursor are consumed
Items == formatted(csv_data, 0)

\* a call interpolate(csv_data, func) on some host at some time
InitSeries ==
    /\ csv_data \in RawSeries
    /\ func \in Reducers
    /\ now \in Clocks
    /\ utcoffset \in UtcOffsets
    /\ ipc = "start" /\ cursor = 0 /\ date1 = 0 /\ value1 = 0 /\ date2 = 0
    /\ value2 = 0 /\ today = 0 /\ values = <<>> /\ results = <<>>
    /\ inst = <<>> /\ response = <<>> /\ pc = <<>> /\ url = <<>>
    /\ counter = <<>> /\ data = <<>> /\ hist = <<>> /\ outcome = <<>>
    /\ net = 0 /\ call = <<>> /\ budget = 0
    /\ fmintime = 0 /\ fpc = "off" /\ fout = <<>>

\* results = []; timestamp1, value1 = next(data) (StopIteration: return
\* results); date1 = gmdate(timestamp1); date2, value2 = date1, value1;
\* today = datetime.date.today()
IStart ==
    /\ ipc = "start"
    /\ results' = <<>>
    /\ IF Items = <<>>
       THEN /\ ipc' = "done"
            /\ UNCHANGED <<cursor, date1, value1, date2, value2, today>>
       ELSE /\ cursor' = 1
            /\ value1' = Items[1][2]
            /\ date1' = gmdate(Items[1][1])
            /\ date2' = gmdate(Items[1][1])
            /\ value2' = Items[1][2]
            /\ today' = DateToday(now, utcoffset)
            /\ ipc' = "while"
    /\ UNCHANGED <<csv_data, func, now, utcoffset, values, reqvars, fmtvars>>

\* IWhile stopping a day early: while date1 < today
IWhileBeforeToday ==
    /\ ipc = "while"
    /\ IF date1 < today
       THEN IF date1 = date2
            THEN values' = <<value2>> /\ ipc' = "inner"
            ELSE values' = values /\ ipc' = "append"
       ELSE values' = values /\ ipc' = "done"
    /\ UNCHANGED <<csv_data, func, now, utcoffset, cursor, date1, value1, date2,
                   value2, today, results, reqvars, fmtvars>>

\* IWhile filling a day without samples backwards, with the value of the
\* sample the cursor is at
IWhileFillBack ==
    /\ ipc = "while"
    /\ IF date1 <= today
       THEN IF date1 = date2
            THEN values' = <<value2>> /\ ipc' = "inner" /\ value1' = value1
            ELSE values' = values /\ ipc' = "append" /\ value1' = value2
       ELSE values' = values /\ ipc' = "done" /\ value1' = value1
    /\ UNCHANGED <<csv_data, func, now, utcoffset, cursor, date1, date2,
                   value2, today, results, reqvars, fmtvars>>

\* while date1 <= today: if date1 == date2: values = [value2] ...
\* (a false loop test: return results)
IWhile ==
    /\ ipc = "while"
    /\ IF date1 <= today
       THEN IF date1 = date2
            THEN values' = <<value2>> /\ ipc' = "inner"
            ELSE values' = values /\ ipc' = "append"
       ELSE values' = values /\ ipc' = "done"
    /\ UNCHANGED <<csv_data, func, now, utcoffset, cursor, date1, value1, date2,
                   value2, today, results, reqvars, fmtvars>>

\* IInner keeping only the day's latest sample: values = [value2]
IInnerOverwrite ==
    /\ ipc = "inner"
    /\ IF cursor = Len(Items)
       THEN /\ ipc' = "reduce"
            /\ UNCHANGED <<cursor, value2, date2, values>>
       ELSE /\ cursor' = cursor + 1
            /\ value2' = Items[cursor + 1][2]
            /\ date2' = gmdate(Items[cursor + 1][1])
            /\ IF date1 = gmdate(Items[cursor + 1][1])
               THEN values' = <<Items[cursor + 1][2]>> /\ ipc' = "inner"
               ELSE values' = values /\ ipc' = "reduce"
    /\ UNCHANGED <<csv_data, func, now, utcoffset, date1, value1, today, results,
                   reqvars, fmtvars>>

\* one turn of the inner while True: timestamp2, value2 = next(data)
\* (StopIteration: break); date2 = gmdate(timestamp2); if date1 == date2:
\* values.append(value2) else: break
IInner ==
    /\ ipc = "inner"
    /\ IF cursor = Len(Items)
       THEN /\ ipc' = "reduce"
            /\ UNCHANGED <<cursor, value2, date2, values>>
       ELSE /\ cursor' = cursor + 1
            /\ value2' = Items[cursor + 1][2]
            /\ date2' = gmdate(Items[cursor + 1][1])
            /\ IF date1 = gmdate(Items[cursor + 1][1])
               THEN values' = Append(values, Items[cursor + 1][2]) /\ ipc' = "inner"
               ELSE values' = values /\ ipc' = "reduce"
    /\ UNCHANGED <<csv_data, func, now, utcoffset, date1, value1, today, results,
                   reqvars, fmtvars>>

\* value1 = func(values)
IReduce ==
    /\ ipc = "reduce"
    /\ value1' = Reduce(func, values)
    /\ ipc' = "append"
    /\ UNCHANGED <<csv_data, func, now, utcoffset, cursor, date1, date2, value2,
                   today, values, results, reqvars, fmtvars>>

\* results.append((date1, value1)); date1 = date1 + day
IAppend ==
    /\ ipc = "append"
    /\ results' = Append(results, <<date1, value1>>)
    /\ date1' = date1 + 1
    /\ ipc' = "while"
    /\ UNCHANGED <<csv_data, func, now, utcoffset, cursor, value1, date2, value2,
                   today, values, reqvars, fmtvars>>

interpolate == IStart \/ IWhile \/ IInner \/ IReduce \/ IAppend

SpecSeries == InitSeries /\ [][interpolate]_vars

----------------------------------------------------------------------------
(* formatted, called with a mintime *)

\* the mintime arguments: 0 (none), the timestamp of each sample, one before
\* all samples, one between two samples and one after all of them
MinTimes ==
    {0} \cup {Decode(t) : t \in RawTimes}
        \cup {Decode(0), Decode(1439) + 30, Decode(5000)}

\* a call formatted(csv_data, mintime)
InitFormat ==
    /\ csv_data \in RawSeries
    /\ fmintime \in MinTimes
    /\ fpc = "call" /\ fout = <<>>
    /\ func = "min" /\ now = 0 /\ utcoffset = 0
    /\ ipc = "off" /\ cursor = 0 /\ date1 = 0 /\ value1 = 0 /\ date2 = 0
    /\ value2 = 0 /\ today = 0 /\ values = <<>> /\ results = <<>>
    /\ inst = <<>> /\ response = <<>> /\ pc = <<>> /\ url = <<>>
    /\ counter = <<>> /\ data = <<>> /\ hist = <<>> /\ outcome = <<>>
    /\ net = 0 /\ call = <<>> /\ budget = 0

\* return list(zip(timestamps[i:], values[i:]))
CallFormatted ==
    /\ fpc = "call"
    /\ fout' = formatted(csv_data, fmintime)
    /\ fpc' = "done"
    /\ UNCHANGED <<fmintime, reqvars, intvars>>

SpecFormat == InitFormat /\ [][CallFormatted]_vars

----------------------------------------------------------------------------
(* KeepaAPI.products, KeepaAPI.categories *)

\* the offers arguments: None (the default) and integers in and around the
\* range 20..100
OffersGiven == {-1, 0, 1, 19, 20, 100, 101}

\* category ids: of 1, 2 and 10 digits (the docstring's example has 10)
CategoryIds == {1, 12, 1234567890}

\* ','.join(strs)
RECURSIVE JoinCommas(_, _)
JoinCommas(strs, i) ==
    IF i > Len(strs) THEN <<>>
    ELSE IF i = Len(strs) THEN strs[i]
    ELSE strs[i] \o <<",">> \o JoinCommas(strs, i + 1)

\* str.split(','): the pieces between the commas (one more than the commas)
SplitCommas(str) ==
    LET commas == {i \in 1..Len(str) : str[i] = ","}
        n == Cardinality(commas)
        pos(k) == IF k = 0 THEN 0
                  ELSE IF k = n + 1 THEN Len(str) + 1
                  ELSE CHOOSE i \in commas :
                          Cardinality({j \in commas : j < i}) = k - 1
    IN  [k \in 1..(n + 1) |-> SubSeq(str, pos(k - 1) + 1, pos(k) - 1)]

\* the category arguments: a str of n comma-separated ids (text: its
\* characters), an int (ints: the one number), a list of n ints, and a value
\* of another type
CategoryArgs ==
    {[type |-> "str", ints |-> <<>>,
      text |-> JoinCommas([k \in 1..n |-> Decimal(c)], 1)] :
        n \in 1..MaxIds, c \in CategoryIds}
    \cup {[type |-> "int", ints |-> <<c>>, text |-> <<>>] : c \in CategoryIds}
    \cup {[type |-> "list", ints |-> [k \in 1..n |-> c], text |-> <<>>] :
            n \in 0..MaxIds, c \in CategoryIds}
    \cup {[type |-> "tuple", ints |-> <<>>, text |-> <<>>]}

\* a fresh instance whose caller uses the call builders
InitBuilders ==
    /\ inst = [t \in {1} |-> 1]
    /\ response = [i \in {1} |-> None]
    /\ pc = [t \in {1} |-> "idle"]
    /\ url = [t \in {1} |-> ""]
    /\ counter = [t \in {1} |-> 0]
    /\ data = [t \in {1} |-> NoBody]
    /\ hist = [t \in {1} |-> <<>>]
    /\ outcome = [t \in {1} |-> NoOutcome]
    /\ net = 0
    /\ call = [t \in {1} |-> NoArgs]
    /\ budget = MaxBuilderAttempts
    /\ fmintime = 0 /\ fpc = "off" /\ fout = <<>>
    /\ csv_data = <<>> /\ func = "min" /\ now = 0 /\ utcoffset = 0
    /\ ipc = "off" /\ cursor = 0 /\ date1 = 0 /\ value1 = 0 /\ date2 = 0
    /\ value2 = 0 /\ today = 0 /\ values = <<>> /\ results = <<>>

\* the builder raises before it reaches request: the call t is over
BuilderRaises(t, e, msg) ==
    /\ outcome' = [outcome EXCEPT ![t] = Raise(e, msg, 0)]
    /\ pc' = [pc EXCEPT ![t] = "done"]
    /\ url' = [url EXCEPT ![t] = ""]

\* return self.request(path, query): request starts (url = urlunparse(...))
BuilderRequests(t, path) ==
    /\ outcome' = [outcome EXCEPT ![t] = NoOutcome]
    /\ pc' = [pc EXCEPT ![t] = "loop"]
    /\ url' = [url EXCEPT ![t] = path]

\* products(asins, offers=...): assert type(asins) is list; if offers: assert
\* 20 <= offers <= 100; return self.request('/product', query)
Products(t) ==
    /\ pc[t] \in {"idle", "done"}
    /\ \E isl \in BOOLEAN, given \in BOOLEAN, o \in OffersGiven :
          /\ (~given) => o = 0
          /\ LET passes == isl /\ ((given /\ o # 0) => (20 <= o /\ o <= 100))
             IN /\ call' = [call EXCEPT ![t] =
                      [method |-> "products", asins_is_list |-> isl,
                       offers_given |-> given, offers |-> o,
                       category |-> NoCategory,
                       cat_ids |-> <<>>, delegated |-> passes]]
                /\ IF ~isl
                   THEN BuilderRaises(t, "AssertionError",
                                      "Param asins type must be a list")
                   ELSE IF given /\ o # 0 /\ ~(20 <= o /\ o <= 100)
                   THEN BuilderRaises(t, "AssertionError", "Incorrect offers range!")
                   ELSE BuilderRequests(t, "/product")
    /\ counter' = [counter EXCEPT ![t] = 0]
    /\ data' = [data EXCEPT ![t] = NoBody]
    /\ hist' = [hist EXCEPT ![t] = <<>>]
    /\ UNCHANGED <<inst, response, net, intvars, fmtvars, budget>>

\* categories(category): cat_ids by the type of category; a str is asserted
\* to have len(category) <= 10; return self.request('/category/', query)
Categories(t) ==
    /\ pc[t] \in {"idle", "done"}
    /\ \E c \in CategoryArgs :
          LET ids == CASE c.type = "str" -> SplitCommas(c.text)
                       [] c.type = "int" -> <<Decimal(c.ints[1])>>
                       [] c.type = "list" ->
                            [k \in 1..Len(c.ints) |-> Decimal(c.ints[k])]
                       [] OTHER -> <<>>
              passes == /\ c.type \in {"str", "int", "list"}
                        /\ c.type = "str" => Len(c.text) <= 10
          IN /\ call' = [call EXCEPT ![t] =
                   [method |-> "categories", asins_is_list |-> TRUE,
                    offers_given |-> FALSE, offers |-> 0,
                    category |-> c,
                    cat_ids |-> ids, delegated |-> passes]]
             /\ IF c.type = "str" /\ ~(Len(c.text) <= 10)
                THEN BuilderRaises(t, "AssertionError",
                                   "Error: More then 10 category ids.")
                ELSE IF c.type \notin {"str", "int", "list"}
                THEN BuilderRaises(t, "KeepaException", "Incorrect category type.")
                ELSE BuilderRequests(t, "/category/")
    /\ counter' = [counter EXCEPT ![t] = 0]
    /\ data' = [data EXCEPT ![t] = NoBody]
    /\ hist' = [hist EXCEPT ![t] = <<>>]
    /\ UNCHANGED <<inst, response, net, intvars, fmtvars, budget>>

NextBuilders == \E t \in Threads : Products(t) \/ Categories(t) \/ request(t)

SpecBuilders == InitBuilders /\ [][NextBuilders]_vars

----------------------------------------------------------------------------
(* Reading a call's history *)

IsAttempt(e) == e.ev # "sleep"
IsFailure(e) == e.ev \in {"conn", "json"}
IsStatus(e, s) == e.ev = "ok" /\ e.status = s

\* the network attempts of a history, in order, and the seconds of its sleeps
AttemptsOf(h) == SelectSeq(h, IsAttempt)
SleepsOf(h) == [i \in 1..Len(SelectSeq(h, LAMBDA e : ~IsAttempt(e))) |->
                   SelectSeq(h, LAMBDA e : ~IsAttempt(e))[i].secs]

\* the exception a failed attempt raises
ExcOf(e) == IF e.ev = "conn" THEN "ConnectionError" ELSE "JSONDecodeError"

\* thread t's call is on its way out of the loops with the body it parsed last
Returning(t, id) ==
    /\ pc[t] \in {"parse", "s264", "done"}
    /\ pc[t] = "done" =>
          /\ outcome[t].kind = "return"
          /\ outcome[t].value.id = id
          /\ outcome[t].value = response[inst[t]].body

----------------------------------------------------------------------------
(* C1: when the first k (k = 0, 1, 2) network attempts of a call fail        *)
(* transiently and attempt k+1 is a 200 with a JSON body, the call makes no  *)
(* other attempt, sleeps exactly k times, 30 seconds each, and returns the   *)
(* decoding of that body.                                                    *)
C1_RetryThenSuccess ==
    \A t \in Threads :
        LET a == AttemptsOf(hist[t]) IN
        \A k \in 0..2 :
            ( /\ Len(a) >= k + 1
              /\ \A i \in 1..k : IsFailure(a[i])
              /\ IsStatus(a[k + 1], 200) )
            => /\ Len(a) = k + 1
               /\ SleepsOf(hist[t]) = [i \in 1..k |-> 30]
               /\ hist[t][Len(hist[t])] = a[k + 1]
               /\ Returning(t, a[k + 1].id)

\* two failures, two sleeps of 30 s, a 200: the call has returned
C1_Witness ==
    \E t \in Threads :
        /\ pc[t] = "done" /\ outcome[t].kind = "return"
        /\ Len(hist[t]) = 5
        /\ IsFailure(hist[t][1]) /\ hist[t][2] = Sleep(30)
        /\ IsFailure(hist[t][3]) /\ hist[t][4] = Sleep(30)
        /\ IsStatus(hist[t][5], 200)

(* C2: three consecutive transient failures end the call: it raises the      *)
(* third failure, there is a sleep of 30 s after the first and after the     *)
(* second of them and none after the third, no further attempt is made and   *)
(* nothing is returned; when they are the call's first three attempts, the   *)
(* call made exactly 3 attempts and exactly 2 sleeps.                        *)
C2_ThreeFailuresRaise ==
    \A t \in Threads :
        LET h == hist[t] IN
        \A i \in 1..Len(h) :
            ( /\ IsFailure(h[i])
              /\ \E j \in (i + 1)..Len(h) : \E k \in (j + 1)..Len(h) :
                    /\ IsFailure(h[j]) /\ IsFailure(h[k])
                    /\ \A m \in (i + 1)..(k - 1) : m # j => ~IsAttempt(h[m]) )
            => /\ Len(h) = i + 4
               /\ h[i + 1] = Sleep(30) /\ IsFailure(h[i + 2])
               /\ h[i + 3] = Sleep(30) /\ IsFailure(h[i + 4])
               /\ pc[t] \in {"parse", "done"}
               /\ pc[t] = "done" => outcome[t] = Raise(ExcOf(h[i + 4]), "", 0)
               /\ i = 1 => /\ Len(AttemptsOf(h)) = 3
                           /\ SleepsOf(h) = <<30, 30>>

\* a call whose three attempts all failed has raised
C2_Witness ==
    \E t \in Threads :
        /\ pc[t] = "done" /\ outcome[t].kind = "raise"
        /\ Len(hist[t]) = 5
        /\ \A i \in {1, 3, 5} : IsFailure(hist[t][i])
        /\ hist[t][1].ev = "conn" /\ hist[t][5].ev = "json"

(* C3: a call that has received a 429 whose JSON body carries refillIn = r   *)
(* (r >= 0) sleeps exactly ceil(r/1000) seconds and goes on to a new network *)
(* attempt for the same URL, without raising.                                *)
\* the 429 branch, reached with a body that carries refillIn
At429(t) == pc[t] = "s268" /\ "refillIn" \in data[t].keys

\* ceil(r/1000), by its definition: the least n with 1000 * n >= r
IsCeil(n, r) == 1000 * n >= r /\ 1000 * (n - 1) < r

SleptAndRetries(t) ==
    /\ pc'[t] = "loop" /\ outcome'[t].kind = "none" /\ url'[t] = url[t]
    /\ \E n \in 0..(data[t].refillIn + 1) :
          /\ IsCeil(n, data[t].refillIn)
          /\ hist'[t] = Append(hist[t], Sleep(n))

\* every network attempt of a call is made for the call's url
SameUrl == \A t \in Threads : \A i \in 1..Len(hist[t]) :
              IsAttempt(hist[t][i]) => hist[t][i].url = url[t]

C4_FatalStatus ==
    \A t \in Threads : \A i \in 1..Len(hist[t]) :
        LET e == hist[t][i] IN
        (e.ev = "ok" /\ e.status \notin {200, 429})
        => /\ i = Len(hist[t])
           /\ pc[t] \in {"parse", "s264", "s266", "s267", "s272", "s276", "done"}
           /\ pc[t] = "done" =>
                outcome[t] = IF e.status \in DOMAIN STATUS_CODES
                             THEN Raise("KeepaException", STATUS_CODES[e.status], 0)
                             ELSE Raise("KeepaException", "Unknown status code", e.status)

\* a 402 after one failed attempt: raised with the table's message
C4_Witness ==
    \E t \in Threads :
        /\ pc[t] = "done" /\ Len(hist[t]) = 3
        /\ IsStatus(hist[t][3], 402)
        /\ outcome[t].msg = "The used API key does not grant access."

(* C5: a call that has ended has returned or raised; it has returned only if *)
(* its last network attempt was a 200 with a JSON body, and then what it     *)
(* returned is the decoding of that body; otherwise it has raised.           *)
C5_NoPartialSuccess ==
    \A t \in Threads :
        pc[t] = "done" =>
            LET a == AttemptsOf(hist[t])
                last == a[Len(a)]
            IN  /\ Len(a) >= 1
                /\ outcome[t].kind \in {"return", "raise"}
                /\ outcome[t].kind = "return" <=> IsStatus(last, 200)
                /\ outcome[t].kind = "return" =>
                      /\ outcome[t].value.id = last.id
                      /\ outcome[t].value = response[inst[t]].body
                      /\ response[inst[t]].parsable
                /\ outcome[t].kind = "raise" => outcome[t].value = NoBody

\* a call returned its third response, after a 429 and a failed attempt
C5_Witness ==
    \E t \in Threads :
        /\ pc[t] = "done" /\ outcome[t].kind = "return"
        /\ Len(AttemptsOf(hist[t])) = 3
        /\ IsStatus(hist[t][1], 429) /\ IsFailure(hist[t][3])
        /\ outcome[t].value.id = net

(* C6: 429 responses never end a call and are not capped: a call that        *)
(* received n 429 responses with JSON bodies and then a 200 returns the      *)
(* 200's body, and no call raises on a 429.                                  *)
\* the call's attempts are n 429 responses and then a 200
Only429Then200(a) ==
    /\ Len(a) >= 1
    /\ \A i \in 1..(Len(a) - 1) : IsStatus(a[i], 429)
    /\ IsStatus(a[Len(a)], 200)

----------------------------------------------------------------------------
(* Reading a raw series *)

\* the number of samples of csv_data, and the UTC day a sample falls on
\* (days counted from 1970-01-01)
NSamples == Len(csv_data) \div 2
SampleDay(j) == ((csv_data[2 * j - 1] + 21564000) * 60) \div 86400
SampleValue(j) == csv_data[2 * j]

NonDecreasing == \A j \in 1..NSamples : \A k \in j..NSamples :
                    csv_data[2 * j - 1] <= csv_data[2 * k - 1]

\* the day the host calls today (its local date), and the UTC date
LocalToday == (now + utcoffset) \div 86400
UtcToday == now \div 86400

\* the values of the samples dated D, in series order
RECURSIVE ValuesFrom(_, _)
ValuesFrom(D, j) ==
    IF j > NSamples THEN <<>>
    ELSE IF SampleDay(j) = D THEN <<SampleValue(j)>> \o ValuesFrom(D, j + 1)
    ELSE ValuesFrom(D, j + 1)
ValuesOn(D) == ValuesFrom(D, 1)

\* the entries interpolate emitted for day D
EntriesFor(D) == {i \in 1..Len(results) : results[i][1] = D}

(* C7: interpolate of an empty series returns an empty sequence; for a       *)
(* series whose first sample's date is not after today it returns            *)
(* (today - firstSampleDate).days + 1 entries, dated firstSampleDate,        *)
(* firstSampleDate + 1, ..., today, in this order (today: the date the       *)
(* program takes for today).                                                 *)
C7_OneEntryPerDay ==
    ipc = "done" =>
        /\ NSamples = 0 => results = <<>>
        /\ (NSamples > 0 /\ SampleDay(1) <= LocalToday) =>
              /\ Len(results) = LocalToday - SampleDay(1) + 1
              /\ \A i \in 1..Len(results) : results[i][1] = SampleDay(1) + i - 1

\* a series of day 1 and day 0 (not sorted), three days emitted
C7_Witness ==
    /\ ipc = "done" /\ NSamples = 2 /\ Len(results) = 3
    /\ SampleDay(2) < SampleDay(1)

(* C8: for a series with non-decreasing timestamps, every day from the first *)
(* sample's day through today on which samples fall has exactly one entry,   *)
(* whose value is the reducer applied to the values of all the samples of    *)
(* that day, in series order.                                                *)
C8_SameDayReduced ==
    (ipc = "done" /\ NSamples > 0 /\ NonDecreasing) =>
        \A D \in SampleDay(1)..LocalToday :
            ValuesOn(D) # <<>> =>
                /\ Cardinality(EntriesFor(D)) = 1
                /\ \A i \in EntriesFor(D) : results[i][2] = Reduce(func, ValuesOn(D))

\* values 10, 3, 7 on one day, reducer min: the day's entry is 3
C8_Witness ==
    /\ ipc = "done" /\ func = "min" /\ NSamples = 3 /\ Len(results) >= 1
    /\ ValuesOn(SampleDay(1)) = <<10, 3, 7>>
    /\ results[1] = <<SampleDay(1), 3>>

(* C9: for a series with non-decreasing timestamps, a day after the first    *)
(* sample's day and up to today on which no sample falls is emitted with the *)
(* value emitted for the day before it.                                      *)
C9_HoldLastValue ==
    (ipc = "done" /\ NSamples > 0 /\ NonDecreasing) =>
        \A D \in (SampleDay(1) + 1)..LocalToday :
            ValuesOn(D) = <<>> =>
                /\ EntriesFor(D) # {} /\ EntriesFor(D - 1) # {}
                /\ \A i \in EntriesFor(D) : \A j \in EntriesFor(D - 1) :
                      results[i][2] = results[j][2]

\* two samples on day 0 reduced to 3 and held over days 1 and 2; the sample
\* of day 3 held on day 4, after the last sample
C9_Witness ==
    /\ ipc = "done" /\ func = "min" /\ NonDecreasing
    /\ csv_data = <<1439, 7, 1439, 3, 4320, 10>>
    /\ Len(results) = 5
    /\ results[1][2] = 3 /\ results[2][2] = 3 /\ results[3][2] = 3
    /\ results[4][2] = 10 /\ results[5][2] = 10

(* C10: the last day interpolate emits for a non-empty series is the current *)
(* UTC date, whatever the host's timezone.                                   *)
C10_EndsOnUtcDate ==
    (ipc = "done" /\ results # <<>>) => results[Len(results)][1] = UtcToday

----------------------------------------------------------------------------
(* Reading what formatted returned *)

\* the decoded sample j of csv_data
SampleTime(j) == (csv_data[2 * j - 1] + 21564000) * 60
Pair(j) == <<SampleTime(j), SampleValue(j)>>

\* fout is a suffix of the decoded series; FStart: the (0-based) index of the
\* sample it begins at
FStart == NSamples - Len(fout)
IsSuffix ==
    /\ Len(fout) <= NSamples
    /\ fout = [j \in 1..Len(fout) |-> Pair(FStart + j)]

(* C11: for a series with non-decreasing timestamps and mintime the decoded  *)
(* timestamp of sample k, formatted returns a suffix of the decoded series   *)
(* that begins at or before the last sample carrying sample k's timestamp    *)
(* (at or before sample k itself when no later sample has its timestamp).    *)

\* as claimed: the suffix begins at or before sample k, whatever follows it
C11_Original ==
    (fpc = "done" /\ NonDecreasing) =>
        \A k \in 1..NSamples :
            fmintime = SampleTime(k) => (IsSuffix /\ FStart + 1 <= k)

C11_BoundaryKept ==
    (fpc = "done" /\ NonDecreasing) =>
        \A k \in 1..NSamples :
            fmintime = SampleTime(k) =>
                /\ IsSuffix
                /\ \E j \in k..NSamples :
                      /\ SampleTime(j) = SampleTime(k)
                      /\ FStart + 1 <= j

\* mintime is the timestamp of samples 1 and 2: the result begins at sample 2
C11_Witness ==
    /\ fpc = "done"
    /\ csv_data = <<1439, 3, 1439, 7, 1440, 10>>
    /\ fmintime = SampleTime(1)
    /\ fout = <<Pair(2), Pair(3)>>

(* C12: formatted(csv_data, 0) returns one entry per sample, entry j being   *)
(* ((csv_data[2j] + 21564000) * 60, csv_data[2j+1]), in the order of the     *)
(* series; formatted of an empty series is empty for every mintime.          *)
C12_AllDecoded ==
    fpc = "done" =>
        /\ fmintime = 0 =>
              /\ Len(fout) = NSamples
              /\ \A j \in 1..NSamples :
                    fout[j] = <<(csv_data[2 * j - 1] + 21564000) * 60, csv_data[2 * j]>>
        /\ csv_data = <<>> => fout = <<>>

\* three samples out of order, all returned in the order given
C12_Witness ==
    /\ fpc = "done" /\ fmintime = 0
    /\ csv_data = <<4320, 3, 1439, 7, 1440, 10>>
    /\ fout = <<<<1294099200, 3>>, <<1293926340, 7>>, <<1293926400, 10>>>>

(* C20: for a non-empty series with non-decreasing timestamps and a non-zero *)
(* mintime, formatted returns a non-empty suffix of the decoded series in    *)
(* which every entry after the first has a timestamp greater than mintime.   *)
C20_OnlyFirstNotAfter ==
    (fpc = "done" /\ NSamples > 0 /\ NonDecreasing /\ fmintime # 0) =>
        /\ fout # <<>>
        /\ IsSuffix
        /\ \A j \in 2..Len(fout) : fout[j][1] > fmintime

----------------------------------------------------------------------------
(* Reading a builder call *)

\* the call of t ended in the builder, on a validation error, before any
\* network attempt
Rejected(t) ==
    /\ ~call[t].delegated
    /\ pc[t] = "done" /\ outcome[t].kind = "raise" /\ hist[t] = <<>>

\* the builder of t's call went on to request
Delegated(t, path) == call[t].delegated /\ url[t] = path /\ pc[t] # "idle"

\* the number of category ids a category argument supplies
IdsSupplied(c) ==
    IF c.type = "str"
    THEN Cardinality({i \in 1..Len(c.text) : c.text[i] = ","}) + 1
    ELSE Len(c.ints)

(* C13: a call of products with an integer offers outside 20..100 (0, 1..19  *)
(* and above 100 included) raises a validation error and makes no network    *)
(* attempt.                                                                  *)
C13_OffersOutOfRange ==
    \A t \in Threads :
        (/\ call[t].method = "products"
         /\ call[t].offers_given
         /\ ~(20 <= call[t].offers /\ call[t].offers <= 100)) => Rejected(t)

(* C14: a call of categories with a str or a list raises a validation error  *)
(* before any network attempt exactly when it supplies more than 10 ids;     *)
(* with 10 ids or fewer, of any number of digits, it goes on to request.     *)
C14_TooManyIds ==
    \A t \in Threads :
        (call[t].method = "categories" /\ call[t].category.type \in {"str", "list"}) =>
            /\ Rejected(t) <=> IdsSupplied(call[t].category) > 10
            /\ IdsSupplied(call[t].category) <= 10 => Delegated(t, "/category/")

----------------------------------------------------------------------------
(* Rounds of a call: the attempts between two parsed responses *)

\* the events i..j of h hold no parsed response
NoParsed(h, i, j) == \A k \in i..j : h[k].ev # "ok"

\* the failed attempts among the events i..j of h, and the sleeps that follow
\* a failed attempt
FailuresIn(h, i, j) == {k \in i..j : IsFailure(h[k])}
RetrySleepsIn(h, i, j) ==
    {k \in i..j : k > 1 /\ h[k].ev = "sleep" /\ IsFailure(h[k - 1])}

\* failure, failure, 429, failure, failure, 200
TwoRounds(a) ==
    /\ Len(a) = 6
    /\ IsFailure(a[1]) /\ IsFailure(a[2]) /\ IsStatus(a[3], 429)
    /\ IsFailure(a[4]) /\ IsFailure(a[5]) /\ IsStatus(a[6], 200)

(* C15: the cap of 3 attempts holds per round and every rate-limit wait      *)
(* starts a new round: between the start of the call or a 429 and the next   *)
(* parsed response there are at most 3 attempts (3 failures only as the end  *)
(* of the call) and at most 2 sleeps of 30 s; the attempt after a rate-limit *)
(* wait is made with counter = 3; a call raises a transient failure only     *)
(* when its last three attempts failed; and failure, failure, 429, failure,  *)
(* failure, 200 returns the body of the 200.                                 *)
C15_FreshBudgetPerRound ==
    \A t \in Threads :
        LET h == hist[t]
            a == AttemptsOf(hist[t])
        IN  /\ \A i \in 1..Len(h) : \A j \in i..Len(h) :
                  NoParsed(h, i, j) =>
                      /\ Cardinality(FailuresIn(h, i, j)) <= 3
                      /\ Cardinality(FailuresIn(h, i, j)) = 3 => j = Len(h)
                      /\ Cardinality(RetrySleepsIn(h, i, j)) <= 2
                      /\ \A k \in RetrySleepsIn(h, i, j) : h[k].secs = 30
            /\ ( /\ pc[t] = "get" /\ Len(h) >= 2
                 /\ IsStatus(h[Len(h) - 1], 429) ) => counter[t] = 3
            /\ ( /\ pc[t] = "done"
                 /\ outcome[t].exc \in {"ConnectionError", "JSONDecodeError"} )
                  => /\ Len(a) >= 3
                     /\ \A i \in (Len(a) - 2)..Len(a) : IsFailure(a[i])
            /\ TwoRounds(a) => Returning(t, a[6].id)

\* four failed attempts in one call, which has returned
C15_Witness ==
    \E t \in Threads :
        /\ TwoRounds(AttemptsOf(hist[t]))
        /\ Len(SelectSeq(hist[t], LAMBDA e : e = Sleep(30))) = 4
        /\ pc[t] = "done" /\ outcome[t].kind = "return"

\* the index of the last parsed response in h (0: none), and of its last
\* attempt (0: none)
LastParsed(h) ==
    IF \E k \in 1..Len(h) : h[k].ev = "ok"
    THEN CHOOSE k \in 1..Len(h) : h[k].ev = "ok" /\ NoParsed(h, k + 1, Len(h))
    ELSE 0
LastAttempt(h) ==
    IF \E k \in 1..Len(h) : IsAttempt(h[k])
    THEN CHOOSE k \in 1..Len(h) :
            IsAttempt(h[k]) /\ \A m \in (k + 1)..Len(h) : ~IsAttempt(h[m])
    ELSE 0

(* C16: a response whose text is no JSON is a transient failure whatever its *)
(* status: the call does not reach the status checks with it; the attempt    *)
(* takes one of the round's 3 attempts; after it the call sleeps 30 s and    *)
(* tries again, or, when it is the round's third failure, raises the parse   *)
(* failure (JSONDecodeError), not a status error.                            *)
C16_UnparsableIsTransient ==
    \A t \in Threads :
        LET h == hist[t]
            n == Len(hist[t])
            k == LastAttempt(hist[t])
            failed == Cardinality(FailuresIn(hist[t], LastParsed(hist[t]) + 1,
                                             Len(hist[t])))
        IN  (k > 0 /\ h[k].ev = "json") =>
                /\ response[inst[t]].id = h[k].id
                /\ ~response[inst[t]].parsable
                /\ pc[t] \in {"parse", "get", "done"}
                /\ pc[t] = "parse" => (k = n /\ counter[t] = 3 - (failed - 1))
                /\ pc[t] = "get" =>
                      /\ k = n - 1 /\ h[n] = Sleep(30)
                      /\ failed \in {1, 2} /\ counter[t] = 3 - failed
                /\ pc[t] = "done" =>
                      /\ k = n /\ failed = 3 /\ counter[t] = 0
                      /\ outcome[t] = Raise("JSONDecodeError", "", 0)

\* a 402 whose text is no JSON, as a round's third failure: the call raised
\* JSONDecodeError
C16_Witness ==
    \E t \in Threads :
        /\ pc[t] = "done" /\ outcome[t].exc = "JSONDecodeError"
        /\ response[inst[t]].status_code = 402
        /\ ~response[inst[t]].parsable
        /\ Len(AttemptsOf(hist[t])) = 3

----------------------------------------------------------------------------
(* self.response *)

\* response r was received by the call whose history is h
ReceivedIn(r, h) ==
    \E i \in 1..Len(h) : h[i].ev \in {"ok", "json"} /\ h[i].id = r.id

(* C18: after a call of request has ended, by return or by raise, the        *)
(* instance's self.response is a response received during that call.         *)
C18_OverwrittenPerCall ==
    \A t \in Threads :
        pc[t] = "done" => ReceivedIn(response[inst[t]], hist[t])

\* no other thread calls on t's instance
Alone(t) == \A u \in Threads \ {t} : inst[u] # inst[t]

\* what the call of t decided, it decided on the response it received last
OwnDecision(t) ==
    LET a == AttemptsOf(hist[t])
        last == a[Len(a)]
    IN  /\ \A i \in 1..(Len(a) - 1) : a[i].ev = "ok" => a[i].status = 429
        /\ pc[t] \in {"s264", "s266", "s267", "s268", "s272", "s276"} =>
              /\ Len(a) > 0 /\ last.ev = "ok"
              /\ data[t].id = last.id
        /\ pc[t] = "s268" => last.status = 429
        /\ pc[t] = "s272" => last.status \in {400, 402, 405, 500}
        /\ pc[t] = "s276" => last.status \notin {200, 400, 402, 405, 429, 500}
        /\ pc[t] = "done" =>
              /\ Len(a) > 0
              /\ outcome[t].kind \in {"return", "raise"}
              /\ outcome[t].kind = "return" =>
                    /\ IsStatus(last, 200)
                    /\ outcome[t].value.id = last.id
              /\ outcome[t].exc = "KeepaException" =>
                    /\ last.ev = "ok" /\ last.status \notin {200, 429}
                    /\ IF last.status \in DOMAIN STATUS_CODES
                       THEN outcome[t].msg = STATUS_CODES[last.status]
                       ELSE outcome[t].code = last.status
              /\ outcome[t].exc = "KeyError" => IsStatus(last, 429)
              /\ outcome[t].exc \in {"ConnectionError", "JSONDecodeError"} =>
                    (IsFailure(last) /\ outcome[t].exc = ExcOf(last))

(* C19: a call on an instance that no other thread calls on decides on the   *)
(* responses it received itself: it returns only the body of its own 200,    *)
(* waits only on its own 429 and raises only for its own last response, and  *)
(* its instance's self.response was not received by another thread's call.   *)

\* as claimed: also for two calls interleaved on one instance
C19_Original == \A t \in Threads : OwnDecision(t)

C19_SeparateInstances ==
    \A t \in Threads :
        Alone(t) =>
            /\ OwnDecision(t)
            /\ \A u \in Threads \ {t} :
                  response[inst[t]].id > 0 => ~ReceivedIn(response[inst[t]], hist[u])

\* two calls on two instances, the first answered 500 and the second 200:
\* the first raised for its 500, the second returned
C19_Witness ==
    /\ Alone(1) /\ pc[1] = "done" /\ pc[2] = "done"
    /\ AttemptsOf(hist[1]) = <<Attempt("ok", [id |-> 1, status_code |-> 500], "/product")>>
    /\ AttemptsOf(hist[2]) = <<Attempt("ok", [id |-> 2, status_code |-> 200], "/token")>>
    /\ outcome[1].exc = "KeepaException" /\ outcome[2].kind = "return"

----------------------------------------------------------------------------
(* Termination *)

\* the attempts of h that were answered 429 with a JSON body
RateLimited(h) == SelectSeq(h, LAMBDA e : IsStatus(e, 429))

\* every attempt of the call was answered 429 with a JSON body
Only429(t) ==
    /\ AttemptsOf(hist[t]) # <<>>
    /\ \A i \in 1..Len(hist[t]) : IsAttempt(hist[t][i]) => IsStatus(hist[t][i], 429)

\* the call has ended, or waits for an attempt the bound of the model denies
Terminates ==
    (pc[1] \notin {"idle", "done"}) ~> (pc[1] = "done" \/ (pc[1] = "get" /\ net = budget))

\* a call answered 429 n times makes at most 3 * (n + 1) attempts
AttemptsBounded ==
    Len(AttemptsOf(hist[1])) <= 3 * (Len(RateLimited(hist[1])) + 1)

(* C17: a call of request whose attempts and sleeps all complete ends (by    *)
(* return or raise) unless it is answered 429 without end: it goes on until  *)
(* it has ended, and makes at most 3 attempts more than three times the 429s *)
(* it received; a call answered 429 every time, each with a JSON body that   *)
(* carries refillIn and tokensLeft, does not end and does not raise.         *)

====
